---- MODULE Spec2Model ----
(***************************************************************************)
(* A model of docker_pull.py: the reference parser, the token and manifest *)
(* negotiation, the layer loop and the packaging of the image archive.     *)
(*                                                                         *)
(* Strings are sequences of symbols.  A symbol is either one of the        *)
(* separator characters the program looks at ("/", "@", ":", ".", the      *)
(* double quote, the newline) or a word that contains none of them, so     *)
(* that split, join, `in` and concatenation are computed as Python         *)
(* computes them.  A SHA-256 hex digest is the string that wraps its       *)
(* preimage between the symbols "sha256(" and ")": an injective function.  *)
(* An uncaught Python exception ends the run with a traceback and exit     *)
(* code 1 (pc = "crashed"); sys.exit(1) ends it with pc = "exited".        *)
(***************************************************************************)
EXTENDS Integers, Sequences, FiniteSets, TLC

VARIABLES image, pc, exit_code, error, image_data, url_data, auth_head,
          env, resp, fs, layers, confresp, content, empty_json,
          idx, parentid, fake_layerid, bresp, written, assigned,
          out, reqs, ntok, tarball

vars == <<image, pc, exit_code, error, image_data, url_data, auth_head,
          env, resp, fs, layers, confresp, content, empty_json,
          idx, parentid, fake_layerid, bresp, written, assigned,
          out, reqs, ntok, tarball>>

(* ------------------------------ bounds --------------------------------- *)

\* longest reference string enumerated for the parser
MaxRefLen == 4
\* most layers in a manifest
MaxLayers == 3
\* most platform entries in a manifest list
MaxEntries == 2

(* ------------------------------ strings -------------------------------- *)

Q == "\""
NL == "\n"

\* s.split(sep): the list of the pieces of s between the occurrences of sep
RECURSIVE Split(_, _)
Split(s, sep) ==
    IF \A i \in 1..Len(s) : s[i] # sep
    THEN <<s>>
    ELSE LET i == CHOOSE k \in 1..Len(s) :
                      s[k] = sep /\ \A j \in 1..(k - 1) : s[j] # sep
         IN  <<SubSeq(s, 1, i - 1)>> \o Split(SubSeq(s, i + 1, Len(s)), sep)

\* sep.join(parts)
RECURSIVE Join(_, _)
Join(parts, sep) ==
    IF Len(parts) = 0 THEN <<>>
    ELSE IF Len(parts) = 1 THEN parts[1]
    ELSE parts[1] \o <<sep>> \o Join(Tail(parts), sep)

\* c in s
In(c, s) == \E i \in 1..Len(s) : s[i] = c

\* s.replace(a, b) for one-symbol a and b
Replace(s, a, b) == [i \in 1..Len(s) |-> IF s[i] = a THEN b ELSE s[i]]

\* parts[:-1]
AllButLast(parts) == SubSeq(parts, 1, Len(parts) - 1)

\* parts[-1]
Last(parts) == parts[Len(parts)]

(* ---------------------------- parse_image ------------------------------ *)

DefaultRegistry == <<"registry-1.docker.io">>

\* the two-target unpacking of split('@'), then of split(':'), each raising
\* ValueError unless the split gives exactly two pieces
ParseImgTag_ColonFirst(last) ==
    LET at == Split(last, "@")
        colon == Split(last, ":")
    IN  IF Len(colon) = 2 THEN [img |-> colon[1], tag |-> colon[2]]
        ELSE IF Len(at) = 2 THEN [img |-> at[1], tag |-> at[2]]
        ELSE [img |-> last, tag |-> <<"latest">>]

ParseImgTag(last) ==
    LET at == Split(last, "@")
        colon == Split(last, ":")
    IN  IF Len(at) = 2 THEN [img |-> at[1], tag |-> at[2]]
        ELSE IF Len(colon) = 2 THEN [img |-> colon[1], tag |-> colon[2]]
        ELSE [img |-> last, tag |-> <<"latest">>]

IsRegistry_DotOnly(imgparts) ==
    Len(imgparts) > 1 /\ In(".", imgparts[1])

\* the test that makes the first segment a registry host
IsRegistry(imgparts) ==
    Len(imgparts) > 1 /\ (In(".", imgparts[1]) \/ In(":", imgparts[1]))

ParseRegistry(imgparts) ==
    IF IsRegistry(imgparts) THEN imgparts[1] ELSE DefaultRegistry

ParseRepo_NoDefault(imgparts) ==
    IF IsRegistry(imgparts)
    THEN Join(SubSeq(imgparts, 2, Len(imgparts) - 1), "/")
    ELSE Join(AllButLast(imgparts), "/")

ParseRepo(imgparts) ==
    IF IsRegistry(imgparts)
    THEN Join(SubSeq(imgparts, 2, Len(imgparts) - 1), "/")
    ELSE IF Len(AllButLast(imgparts)) # 0
         THEN Join(AllButLast(imgparts), "/")
         ELSE <<"library">>

parse_image(s) ==
    LET imgparts == Split(s, "/")
        it == ParseImgTag(Last(imgparts))
        repo == ParseRepo(imgparts)
    IN  [imgparts |-> imgparts,
         registry |-> ParseRegistry(imgparts),
         repo |-> repo,
         img |-> it.img,
         tag |-> it.tag,
         repository |-> repo \o <<"/">> \o it.img]

\* ImageData.base_url, manifest_url, blobs_url
base_url(d) == <<"https://">> \o d.registry \o <<"/v2">>
manifest_url(d) ==
    base_url(d) \o <<"/">> \o d.repository \o <<"/manifests/">> \o d.tag
blobs_url(d) == base_url(d) \o <<"/">> \o d.repository \o <<"/blobs">>

(* ------------------------- names and scopes ---------------------------- *)

\* the names bound at module level when main() runs
ModuleGlobals ==
    {"os", "sys", "gzip", "json", "hashlib", "shutil", "tarfile", "urllib3",
     "pathlib", "dataclass", "ArgumentParser", "BytesIO", "requests", "click",
     "CHUNK_SIZE", "URLData", "ImageData", "get_auth_head", "progress_bar",
     "build_options", "parse_image", "manifest_error", "get_base_json",
     "get_url_data", "save_chunks", "layer_error", "get_fake_layerid",
     "func_layers", "save_image_tar", "get_content_json", "CONTEXT_SETTINGS",
     "main"}

\* the parameters and the assigned names of each function
ManifestErrorLocals ==
    {"resp", "url_data", "image_data", "auth_type", "auth_head", "url",
     "manifests", "manifest", "key", "value"}

LayerErrorLocals == {"layer", "auth_head", "bresp", "err_msg"}

FuncLayersLocals ==
    {"layers", "url_data", "image_data", "imgdir", "content", "confresp",
     "parentid", "layer", "ublob", "fake_layerid", "base_path", "layerdir",
     "layer_version", "file", "auth_type", "auth_head", "url", "bresp",
     "nb_traits", "msg", "layer_tar_file", "layer_gzip_file", "unzLayer",
     "json_obj", "json_file"}

MainLocals ==
    {"image", "image_data", "url_data", "auth_head", "resp", "layers",
     "img_tag", "basedir", "imgdir", "config", "config_base", "url",
     "confresp", "filename", "file", "content", "path", "empty_json",
     "fake_layerid", "manifest_file", "repositories_file"}

\* a name read inside a function resolves iff the function binds it or the
\* module does; otherwise the read raises NameError
Bound(name, locals) == name \in locals \cup ModuleGlobals

(* ------------------------------ media types ---------------------------- *)

MediaV2 == <<"application/vnd.docker.distribution.manifest.v2+json">>
MediaList == <<"application/vnd.docker.distribution.manifest.list.v2+json">>

(* ----------------------------- environment ----------------------------- *)

\* the references given on the command line
Images ==
    { <<"app">>,
      <<"app", ":", "v1">>,
      <<"team", "/", "app">>,
      <<"library", "/", "nginx", ":", "stable">>,
      <<"myregistry", ".", "example", ".", "com", ":", "5000", "/", "team",
        "/", "app", "@", "sha256", ":", "abcd">> }

\* what the registry holds for the reference: a manifest, only a manifest
\* list of some platform entries, or nothing
Server ==
    {[manifest |-> 200, list |-> 404, entries |-> 0],
     [manifest |-> 404, list |-> 404, entries |-> 0]}
    \cup {[manifest |-> 404, list |-> 200, entries |-> k] : k \in 1..MaxEntries}

\* the registry, and whether a working directory of the same name was left
\* behind by an earlier run
Environment ==
    {[manifest |-> r.manifest, list |-> r.list, entries |-> r.entries,
      stale |-> b] : r \in Server, b \in BOOLEAN}

\* responses of the registry's base endpoint: no authentication, a
\* challenge with realm and service, a challenge with a realm only, a
\* challenge without quoted fields, a 401 without the header
ChallengeFull ==
    <<"Bearer realm=", Q, "https://auth.example/token", Q, ",service=", Q,
      "registry.example", Q>>
ChallengeRealm == <<"Bearer realm=", Q, "https://auth.example/token", Q>>
ChallengeBare == <<"Basic">>

ProbeResponses ==
    {[status |-> 200, has_header |-> FALSE, header |-> <<>>],
     [status |-> 401, has_header |-> TRUE, header |-> ChallengeFull],
     [status |-> 401, has_header |-> TRUE, header |-> ChallengeRealm],
     [status |-> 401, has_header |-> TRUE, header |-> ChallengeBare],
     [status |-> 401, has_header |-> FALSE, header |-> <<>>]}

Digests == {<<"sha256", ":", "d1">>, <<"sha256", ":", "d2">>}
ConfigDigest == <<"sha256", ":", "c0">>
FallbackUrl == <<"https://cdn.example/blob">>

\* a layer descriptor; urls = <<>> stands for a descriptor without urls
LayerDescs == [digest : Digests, urls : {<<>>, <<FallbackUrl>>}]

LayerSeqs == UNION {[1..n -> LayerDescs] : n \in 0..MaxLayers}

\* the config blob as a JSON object (its keys; the values play no part),
\* or the error document of a failed request
ConfigResponses ==
    {[status |-> 200, keys |-> {"architecture", "history", "rootfs"}],
     [status |-> 200, keys |-> {"architecture", "history", "rootfS"}],
     [status |-> 200, keys |-> {"architecture", "rootfs"}],
     [status |-> 404, keys |-> {"errors"}]}

(* ------------------------------- hashing ------------------------------- *)

\* hashlib.sha256(data).hexdigest()
SHA256(data) == <<"sha256(">> \o data \o <<")">>

\* get_fake_layerid(): the digest of the literal text of its two string
\* constants, which are not f-strings and read no variable
get_fake_layerid == SHA256(<<"{parentid}", NL>> \o <<"{ublob}", NL>>)

(* ------------------------------ filesystem ----------------------------- *)

\* a path is relative to the working directory imgdir; <<>> is imgdir itself
Dir == [type |-> "dir", data |-> <<>>]
File(d) == [type |-> "file", data |-> d]
Exists(p) == p \in DOMAIN fs
NoFs == [p \in {} |-> Dir]

(* ------------------------------- requests ------------------------------ *)

Request(kind, url, head, status) ==
    [kind |-> kind, url |-> url, accept |-> head.Accept,
     token |-> head.Authorization, status |-> status]

NoHead == [Authorization |-> 0, Accept |-> <<>>]

\* get_auth_head: the token URL, and the header pair built from the token
TokenUrl(ud) ==
    ud.auth_url \o <<"?service=">> \o ud.reg_service
        \o <<"&scope=repository:">> \o ud.repository \o <<":pull">>

TokenRequest(ud, ok) ==
    Request("token", TokenUrl(ud), NoHead, IF ok THEN 200 ELSE 401)

AuthHead(token, ud) == [Authorization |-> token, Accept |-> ud.auth_type]

(* -------------------------------- Init --------------------------------- *)

NoImageData ==
    [imgparts |-> <<>>, registry |-> <<>>, repo |-> <<>>, img |-> <<>>,
     tag |-> <<>>, repository |-> <<>>]
NoUrlData ==
    [auth_url |-> <<>>, reg_service |-> <<>>, repository |-> <<>>,
     auth_type |-> <<>>]
NoResp == [status |-> 0, layers |-> <<>>, config |-> <<>>]
NoConf == [status |-> 0, keys |-> {}]
NoContent == [Config |-> <<>>, RepoTags |-> <<>>, Layers |-> <<>>]
NoBresp == [status |-> 0, source |-> "none"]
NoTar == [name |-> <<>>, tree |-> NoFs]

Idle ==
    /\ exit_code = -1
    /\ error = "none"
    /\ image_data = NoImageData
    /\ url_data = NoUrlData
    /\ auth_head = NoHead
    /\ resp = NoResp
    /\ layers = <<>>
    /\ confresp = NoConf
    /\ content = NoContent
    /\ empty_json = <<>>
    /\ idx = 0
    /\ parentid = <<>>
    /\ fake_layerid = <<>>
    /\ bresp = NoBresp
    /\ written = <<>>
    /\ assigned = <<>>
    /\ out = <<>>
    /\ reqs = <<>>
    /\ ntok = 0
    /\ tarball = NoTar

Init ==
    /\ image \in Images
    /\ pc = "parse_image"
    /\ env \in Environment
    /\ fs = IF env.stale THEN (<<>> :> Dir) ELSE NoFs
    /\ Idle

(* ------------------------------ termination ---------------------------- *)

\* an uncaught exception: traceback, exit code 1
Crash(e) == pc' = "crashed" /\ exit_code' = 1 /\ error' = e

\* sys.exit(1)
Exit1 == pc' = "exited" /\ exit_code' = 1 /\ error' = "none"

Goto(l) == pc' = l /\ UNCHANGED <<exit_code, error>>

Terminated == pc \in {"done", "exited", "crashed"}

loopvars == <<idx, parentid, fake_layerid, bresp, written, assigned>>
mainvars == <<resp, layers, confresp, content, empty_json>>

(* -------------------------------- main --------------------------------- *)

\* main, line 426
ParseImage ==
    /\ pc = "parse_image"
    /\ image_data' = parse_image(image)
    /\ Goto("get_url_data")
    /\ UNCHANGED <<image, env, url_data, auth_head, fs, out, reqs, ntok,
                   tarball, loopvars, mainvars>>

\* get_url_data: the endpoint and service taken from the challenge
ChallengeField(header, i) == Split(header, Q)[i]
ChallengePieces(header) == Len(Split(header, Q))

get_url_data_ListType(d, probe) ==
    [auth_url |-> <<"https://auth.docker.io/token">>,
     reg_service |-> <<"registry.docker.io">>,
     repository |-> d.repository,
     auth_type |-> MediaList]

get_url_data(d, probe) ==
    [auth_url |-> IF probe.status = 401
                  THEN ChallengeField(probe.header, 2)
                  ELSE <<"https://auth.docker.io/token">>,
     reg_service |-> IF probe.status = 401
                     THEN IF ChallengePieces(probe.header) >= 4
                          THEN ChallengeField(probe.header, 4)
                          ELSE <<>>
                     ELSE <<"registry.docker.io">>,
     repository |-> d.repository,
     auth_type |-> MediaV2]

\* main, line 427
GetUrlData ==
    /\ pc = "get_url_data"
    /\ \E probe \in ProbeResponses :
         /\ reqs' = Append(reqs, Request("probe", base_url(image_data),
                                         NoHead, probe.status))
         /\ IF probe.status = 401 /\ ~probe.has_header
            THEN Crash("KeyError") /\ UNCHANGED url_data
            ELSE IF probe.status = 401 /\ ChallengePieces(probe.header) < 2
            THEN Crash("IndexError") /\ UNCHANGED url_data
            ELSE /\ url_data' = get_url_data(image_data, probe)
                 /\ Goto("get_auth_head")
    /\ UNCHANGED <<image, env, image_data, auth_head, fs, out, ntok,
                   tarball, loopvars, mainvars>>

\* main, line 428: get_auth_head(url_data)
MainGetAuthHead ==
    /\ pc = "get_auth_head"
    /\ \E ok \in BOOLEAN :
         /\ reqs' = Append(reqs, TokenRequest(url_data, ok))
         /\ IF ok
            THEN /\ ntok' = ntok + 1
                 /\ auth_head' = AuthHead(ntok + 1, url_data)
                 /\ Goto("get_manifest")
            ELSE /\ Crash("KeyError")
                 /\ UNCHANGED <<ntok, auth_head>>
    /\ UNCHANGED <<image, env, image_data, url_data, fs, out, tarball,
                   loopvars, mainvars>>

\* main, lines 430-439: the manifest request
GetManifest ==
    /\ pc = "get_manifest"
    /\ reqs' = Append(reqs, Request("manifest", manifest_url(image_data),
                                    auth_head, env.manifest))
    /\ IF env.manifest = 200
       THEN \E ls \in LayerSeqs :
              /\ resp' = [status |-> 200, layers |-> ls,
                          config |-> ConfigDigest]
              /\ layers' = ls
              /\ Goto("mkdir")
       ELSE /\ resp' = [status |-> env.manifest, layers |-> <<>>,
                        config |-> <<>>]
            /\ UNCHANGED layers
            /\ Goto("manifest_error")
    /\ UNCHANGED <<image, env, image_data, url_data, auth_head, fs, out,
                   ntok, tarball, loopvars, confresp, content, empty_json>>

(* ---------------------------- manifest_error --------------------------- *)

\* the lines a run prints
Line(kind, about) == [kind |-> kind, about |-> about]

\* lines 164-169: one line per entry of the manifest list
DigestLines(k) == [i \in 1..k |-> Line("digest", "entry")]

\* manifest_error (called at line 437)
ManifestError ==
    /\ pc = "manifest_error"
    /\ \E ok \in BOOLEAN :
         LET printed == out \o <<Line("failure", "manifest"),
                                 Line("body", "manifest")>>
             ud == [url_data EXCEPT !.auth_type = MediaList]
             head == AuthHead(ntok + 1, ud)
             asked == Append(reqs, TokenRequest(ud, ok))
         IN  /\ url_data' = ud
             /\ IF ~ok
                THEN /\ Crash("KeyError")
                     /\ out' = printed
                     /\ reqs' = asked
                     /\ UNCHANGED ntok
                ELSE IF ~(Bound("registry", ManifestErrorLocals)
                          /\ Bound("tag", ManifestErrorLocals))
                THEN /\ Crash("NameError")
                     /\ out' = printed
                     /\ reqs' = asked
                     /\ ntok' = ntok + 1
                ELSE /\ Exit1
                     /\ ntok' = ntok + 1
                     /\ reqs' = Append(asked,
                            Request("manifest", manifest_url(image_data),
                                    head, env.list))
                     /\ out' = IF env.list = 200
                               THEN printed \o <<Line("found", "list")>>
                                        \o DigestLines(env.entries)
                               ELSE printed
    /\ UNCHANGED <<image, env, image_data, auth_head, fs, tarball, loopvars,
                   mainvars>>

(* ------------------------- main: working directory -------------------- *)

\* main, lines 441-446: imgdir.mkdir()
MkImgdir ==
    /\ pc = "mkdir"
    /\ IF Exists(<<>>)
       THEN Crash("FileExistsError") /\ UNCHANGED <<fs, out>>
       ELSE /\ fs' = (<<>> :> Dir)
            /\ out' = Append(out, Line("creating", "imgdir"))
            /\ Goto("get_config")
    /\ UNCHANGED <<image, env, image_data, url_data, auth_head, reqs, ntok,
                   tarball, loopvars, mainvars>>

\* config[7:], the digest without its "sha256:" prefix, and the file name
config_base(config) == SubSeq(config, 3, Len(config))
config_name(config) == config_base(config) \o <<".json">>

\* main, lines 448-457: the config blob, written whatever its status
GetConfig ==
    /\ pc = "get_config"
    /\ \E cr \in ConfigResponses :
         /\ reqs' = Append(reqs,
                Request("config",
                        blobs_url(image_data) \o <<"/">> \o resp.config,
                        auth_head, cr.status))
         /\ confresp' = cr
         /\ fs' = (<<config_name(resp.config)>> :> File(cr.keys)) @@ fs
    /\ Goto("build_content")
    /\ UNCHANGED <<image, env, image_data, url_data, auth_head, out, ntok,
                   tarball, loopvars, resp, layers, content, empty_json>>

\* get_base_json: the placeholder object (dumped, and loaded again by its
\* reader)
get_base_json ==
    [created |-> "1970-01-01T00:00:00Z",
     container_config |->
        [Hostname |-> "", Domainname |-> "", User |-> "",
         AttachStdin |-> FALSE, AttachStdout |-> FALSE,
         AttachStderr |-> FALSE, Tty |-> FALSE, OpenStdin |-> FALSE,
         StdinOnce |-> FALSE, Env |-> "null", Cmd |-> "null", Image |-> "",
         Volumes |-> "null", WorkingDir |-> "", Entrypoint |-> "null",
         OnBuild |-> "null", Labels |-> "null"]]

\* main, lines 459-472: the manifest.json object and its RepoTags entry
BuildContent ==
    /\ pc = "build_content"
    /\ LET c == [Config |-> config_name(resp.config), RepoTags |-> <<>>,
                 Layers |-> <<>>]
           parts == image_data.imgparts
       IN  IF Len(AllButLast(parts)) # 0
           THEN IF Bound("imgparts", MainLocals) /\ Bound("img", MainLocals)
                   /\ Bound("tag", MainLocals)
                THEN /\ content' = [c EXCEPT !.RepoTags =
                            <<Join(AllButLast(parts), "/") \o <<"/">>
                              \o image_data.img \o <<":">> \o image_data.tag>>]
                     /\ empty_json' = get_base_json
                     /\ idx' = 1
                     /\ Goto("func_layers")
                ELSE /\ content' = c
                     /\ Crash("NameError")
                     /\ UNCHANGED <<empty_json, idx>>
           ELSE /\ content' = [c EXCEPT !.RepoTags =
                            <<image_data.img \o <<":">> \o image_data.tag>>]
                /\ empty_json' = get_base_json
                /\ idx' = 1
                /\ Goto("func_layers")
    /\ parentid' = <<>>
    /\ UNCHANGED <<image, env, image_data, url_data, auth_head, fs, out, reqs,
                   ntok, tarball, resp, layers, confresp, fake_layerid, bresp,
                   written, assigned>>

(* ------------------------------ func_layers ---------------------------- *)

\* lines 293-303: the layer's ID, its directory and its VERSION file
LayerStart ==
    /\ pc = "func_layers"
    /\ idx <= Len(layers)
    /\ LET id == get_fake_layerid
       IN  /\ fake_layerid' = id
           /\ assigned' = Append(assigned, id)
           /\ IF Exists(<<id>>)
              THEN Crash("FileExistsError") /\ UNCHANGED fs
              ELSE /\ fs' = (<<id>> :> Dir)
                            @@ (<<id, <<"VERSION">>>> :> File(<<"1.0">>))
                            @@ fs
                   /\ Goto("layer_fetch")
    /\ UNCHANGED <<image, env, image_data, url_data, auth_head, out, reqs,
                   ntok, tarball, mainvars, idx, parentid, bresp, written>>

Statuses == {200, 404}

LayerHead_Reused == auth_head

\* lines 309-311: the header pair of the layer, from a token fetched in the
\* iteration
LayerHead == AuthHead(ntok + 1, url_data)

\* lines 306-321 and layer_error: the token, the blob request and the
\* request to the first fallback URL
LayerFetch ==
    /\ pc = "layer_fetch"
    /\ \E ok \in BOOLEAN, st \in Statuses, fst \in Statuses :
         LET layer == layers[idx]
             head == LayerHead
             asked == Append(reqs, TokenRequest(url_data, ok))
             direct == Append(asked,
                         Request("blob",
                                 blobs_url(image_data) \o <<"/">>
                                     \o layer.digest,
                                 head, st))
         IN  IF ~ok
             THEN /\ Crash("KeyError")
                  /\ reqs' = asked
                  /\ UNCHANGED <<ntok, bresp, out>>
             ELSE /\ ntok' = ntok + 1
                  /\ IF st = 200
                     THEN /\ reqs' = direct
                          /\ bresp' = [status |-> 200, source |-> "direct"]
                          /\ Goto("layer_save")
                          /\ UNCHANGED out
                     ELSE IF Len(layer.urls) = 0
                     THEN /\ reqs' = direct
                          /\ bresp' = [status |-> st, source |-> "direct"]
                          /\ Crash("KeyError")
                          /\ UNCHANGED out
                     ELSE /\ reqs' = Append(direct,
                                 Request("fallback", layer.urls[1], head, fst))
                          /\ bresp' = [status |-> fst, source |-> "fallback"]
                          /\ IF fst = 200
                             THEN Goto("layer_save") /\ UNCHANGED out
                             ELSE IF Bound("ublob", LayerErrorLocals)
                             THEN /\ out' = out \o <<Line("failure", "layer"),
                                                    Line("body", "layer")>>
                                  /\ Exit1
                             ELSE Crash("NameError") /\ UNCHANGED out
    /\ UNCHANGED <<image, env, image_data, url_data, auth_head, fs, tarball,
                   mainvars, idx, parentid, fake_layerid, written, assigned>>

\* a JSON object is a function from its keys
DelKey(obj, k) == [x \in DOMAIN obj \ {k} |-> obj[x]]
SetKey(obj, k, v) == (k :> v) @@ obj

\* json.loads(confresp.content)
ConfigObject(cr) == [k \in cr.keys |-> "config"]

CleanRaises_Never(obj) == FALSE

\* lines 357-361: del history, then del rootfs or else rootfS
CleanRaises(obj) ==
    \/ "history" \notin DOMAIN obj
    \/ ("rootfs" \notin DOMAIN obj /\ "rootfS" \notin DOMAIN obj)

CleanConfig(obj) ==
    LET a == DelKey(obj, "history")
    IN  IF "rootfs" \in DOMAIN a THEN DelKey(a, "rootfs")
        ELSE DelKey(a, "rootfS")

\* line 351: the test that selects the config branch
IsLastLayer(ls, layer) == Last(ls).digest = layer.digest

WithParent_Always(obj, parent) == SetKey(obj, "parent", parent)

\* lines 367-368: the parent key
WithParent(obj, parent) ==
    IF parent # <<>> THEN SetKey(obj, "parent", parent) ELSE obj

\* lines 322-375: the layer.tar file, the Layers entry and the json record
\* (a 200 blob response carries Content-Length and a gzip body; the progress
\* display writes to the terminal only)
LayerSave ==
    /\ pc = "layer_save"
    /\ LET layer == layers[idx]
           id == fake_layerid
           saved == (<<id, <<"layer.tar">>>> :> File(layer.digest)) @@ fs
           config == IsLastLayer(layers, layer)
           raises == IF config
                     THEN IF CleanRaises(ConfigObject(confresp))
                          THEN "KeyError" ELSE "none"
                     ELSE IF Bound("empty_json", FuncLayersLocals)
                          THEN "none" ELSE "NameError"
           base == IF config THEN CleanConfig(ConfigObject(confresp))
                   ELSE empty_json
           json_obj == WithParent(SetKey(base, "id", id), parentid)
       IN  /\ out' = Append(out, Line("complete", "layer"))
           /\ content' = [content EXCEPT
                            !.Layers = Append(@, id \o <<"/layer.tar">>)]
           /\ IF raises # "none"
              THEN /\ Crash(raises)
                   /\ fs' = saved
                   /\ UNCHANGED <<parentid, written, idx>>
              ELSE /\ parentid' = json_obj["id"]
                   /\ fs' = (<<id, <<"json">>>> :> File(json_obj)) @@ saved
                   /\ written' = Append(written,
                                        [pos |-> idx, json |-> json_obj])
                   /\ idx' = idx + 1
                   /\ Goto("func_layers")
    /\ UNCHANGED <<image, env, image_data, url_data, auth_head, reqs, ntok,
                   tarball, resp, layers, confresp, empty_json, fake_layerid,
                   bresp, assigned>>

\* line 377: return fake_layerid, unbound when the loop ran no iteration
FuncLayersReturn ==
    /\ pc = "func_layers"
    /\ idx > Len(layers)
    /\ IF Len(layers) = 0
       THEN Crash("UnboundLocalError")
       ELSE Goto("write_manifest")
    /\ UNCHANGED <<image, env, image_data, url_data, auth_head, fs, out, reqs,
                   ntok, tarball, loopvars, mainvars>>

(* ----------------------------- main: packaging ------------------------- *)

\* main, lines 482-484
WriteManifest ==
    /\ pc = "write_manifest"
    /\ fs' = (<<<<"manifest.json">>>> :> File(<<content>>)) @@ fs
    /\ Goto("write_repositories")
    /\ UNCHANGED <<image, env, image_data, url_data, auth_head, out, reqs,
                   ntok, tarball, loopvars, mainvars>>

get_content_json_ImageOnly(d, id) ==
    [k \in {d.img} |-> [t \in {d.tag} |-> id]]

\* get_content_json
get_content_json(d, id) ==
    LET key == IF Len(AllButLast(d.imgparts)) # 0
               THEN Join(AllButLast(d.imgparts), "/") \o <<"/">> \o d.img
               ELSE d.img
    IN  [k \in {key} |-> [t \in {d.tag} |-> id]]

\* main, lines 486-490
WriteRepositories ==
    /\ pc = "write_repositories"
    /\ content' = get_content_json(image_data, fake_layerid)
    /\ fs' = (<<<<"repositories">>>> :> File(content')) @@ fs
    /\ Goto("save_image_tar")
    /\ UNCHANGED <<image, env, image_data, url_data, auth_head, out, reqs,
                   ntok, tarball, loopvars, resp, layers, confresp,
                   empty_json>>

SaveImageTar_RemovesFirst ==
    /\ pc = "save_image_tar"
    /\ fs' = NoFs
    /\ tarball' = [name |-> Replace(image_data.repo, "/", "_") \o <<"_">>
                            \o image_data.img \o <<".tar">>,
                   tree |-> NoFs]
    /\ out' = Append(out, Line("creating", "archive"))
    /\ Goto("cleanup")
    /\ UNCHANGED <<image, env, image_data, url_data, auth_head, reqs,
                   ntok, loopvars, mainvars>>

\* save_image_tar (called at line 492)
SaveImageTar ==
    /\ pc = "save_image_tar"
    /\ tarball' = [name |-> Replace(image_data.repo, "/", "_") \o <<"_">>
                            \o image_data.img \o <<".tar">>,
                   tree |-> fs]
    /\ out' = Append(out, Line("creating", "archive"))
    /\ Goto("cleanup")
    /\ UNCHANGED <<image, env, image_data, url_data, auth_head, fs, reqs,
                   ntok, loopvars, mainvars>>

\* main, lines 494-497: rmtree, the last message, and the normal return
Cleanup ==
    /\ pc = "cleanup"
    /\ fs' = NoFs
    /\ out' = Append(out, Line("pulled", "image"))
    /\ pc' = "done"
    /\ exit_code' = 0
    /\ UNCHANGED <<image, env, image_data, url_data, auth_head, reqs, ntok,
                   tarball, loopvars, mainvars, error>>

Next ==
    \/ ParseImage
    \/ GetUrlData
    \/ MainGetAuthHead
    \/ GetManifest
    \/ ManifestError
    \/ MkImgdir
    \/ GetConfig
    \/ BuildContent
    \/ LayerStart
    \/ LayerFetch
    \/ LayerSave
    \/ FuncLayersReturn
    \/ WriteManifest
    \/ WriteRepositories
    \/ SaveImageTar
    \/ Cleanup

Spec == Init /\ [][Next]_vars

(* --------------------------- the parser alone -------------------------- *)

Alphabet == {"a", ".", ":", "@", "/"}

\* every string of at most MaxRefLen symbols, and the references of the
\* documented scenarios
ParseInputs ==
    UNION {[1..n -> Alphabet] : n \in 0..MaxRefLen} \cup Images

InitParse ==
    /\ image \in ParseInputs
    /\ pc = "parse_image"
    /\ env = [manifest |-> 200, list |-> 404, entries |-> 0, stale |-> FALSE]
    /\ fs = NoFs
    /\ Idle

NextParse == ParseImage

SpecParse == InitParse /\ [][NextParse]_vars

(* ------------------------ get_content_json alone ----------------------- *)

\* the IDs handed to get_content_json: the one the layer loop returns, and
\* another
FinalIds == {get_fake_layerid, SHA256(<<NL, "sha256", ":", "d1", NL>>)}

\* get_content_json applied to a parsed reference and a final layer ID
ContentJson ==
    /\ pc = "get_url_data"
    /\ \E id \in FinalIds :
         /\ fake_layerid' = id
         /\ content' = get_content_json(image_data, id)
    /\ Goto("content_json")
    /\ UNCHANGED <<image, env, image_data, url_data, auth_head, fs, out, reqs,
                   ntok, tarball, resp, layers, confresp, empty_json, idx,
                   parentid, bresp, written, assigned>>

NextContent == ParseImage \/ ContentJson

SpecContent == InitParse /\ [][NextContent]_vars

(* ----------------------- the config cleaning alone --------------------- *)

\* the keys a config blob may hold
ConfigKeys ==
    {"architecture", "config", "created", "os", "history", "rootfs", "rootfS"}

InitClean ==
    /\ image = <<"app">>
    /\ pc = "load_config"
    /\ env = [manifest |-> 200, list |-> 404, entries |-> 0, stale |-> FALSE]
    /\ fs = NoFs
    /\ Idle

\* line 356: the config blob of the response, any set of keys
LoadConfig ==
    /\ pc = "load_config"
    /\ \E ks \in SUBSET ConfigKeys : confresp' = [status |-> 200, keys |-> ks]
    /\ Goto("clean")
    /\ UNCHANGED <<image, env, image_data, url_data, auth_head, fs, out, reqs,
                   ntok, tarball, resp, layers, content, empty_json,
                   loopvars>>

\* lines 357-361 applied to the loaded object, then to their own output;
\* written keeps the outputs
CleanStep ==
    /\ pc = "clean"
    /\ idx < 2
    /\ LET obj == IF idx = 0 THEN ConfigObject(confresp)
                  ELSE written[idx].json
       IN  IF CleanRaises(obj)
           THEN Crash("KeyError") /\ UNCHANGED <<written, idx>>
           ELSE /\ written' = Append(written, [pos |-> idx + 1,
                                               json |-> CleanConfig(obj)])
                /\ idx' = idx + 1
                /\ Goto("clean")
    /\ UNCHANGED <<image, env, image_data, url_data, auth_head, fs, out, reqs,
                   ntok, tarball, mainvars, parentid, fake_layerid, bresp,
                   assigned>>

NextClean == LoadConfig \/ CleanStep

SpecClean == InitClean /\ [][NextClean]_vars

(* ------------------------- properties: the parser ---------------------- *)

\* parse_image has returned
Parsed == pc = "get_url_data"

IsPrefix(a, b) == Len(a) <= Len(b) /\ SubSeq(b, 1, Len(a)) = a
Count(c, s) == Cardinality({i \in 1..Len(s) : s[i] = c})
FirstSlash(s) == CHOOSE k \in 1..Len(s) :
                    s[k] = "/" /\ \A j \in 1..(k - 1) : s[j] # "/"
LastSlash(s) == CHOOSE k \in 1..Len(s) :
                    s[k] = "/" /\ \A j \in (k + 1)..Len(s) : s[j] # "/"
FirstSegment(s) == IF In("/", s) THEN SubSeq(s, 1, FirstSlash(s) - 1) ELSE s
LastSegment(s) ==
    IF In("/", s) THEN SubSeq(s, LastSlash(s) + 1, Len(s)) ELSE s
HostLike(seg) == In(".", seg) \/ In(":", seg)

\* C6: a reference without "/" resolves to the default public registry and
\* to the repository library/<name>, <name> being the part of the string
\* before its tag or digest separator (the whole string when it has none).
C6_BareReference ==
    (Parsed /\ ~In("/", image)) =>
        /\ image_data.registry = DefaultRegistry
        /\ image_data.repository = <<"library", "/">> \o image_data.img
        /\ IsPrefix(image_data.img, image)
        /\ \/ image_data.img = image
           \/ image[Len(image_data.img) + 1] \in {"@", ":"}

C6_Witness ==
    /\ Parsed
    /\ image = <<"app", ":", "v1">>
    /\ image_data.repository = <<"library", "/", "app">>
    /\ image_data.registry = DefaultRegistry

\* the first segment is the registry and the rest of the reference, which
\* starts after the first "/", holds the namespace and the image name
FirstSegmentIsRegistry ==
    LET rest == SubSeq(image, Len(FirstSegment(image)) + 2, Len(image))
    IN  /\ image_data.registry = FirstSegment(image)
        /\ IF In("/", rest)
           THEN IsPrefix(image_data.repository, rest)
           ELSE image_data.repo = <<>> /\ IsPrefix(image_data.img, rest)

\* C7 (as stated): whenever the first "/"-separated segment of the
\* reference contains "." or ":", that segment is the registry host and is
\* no part of the namespace or of the image name.
C7_HostLikeFirstSegment ==
    (Parsed /\ HostLike(FirstSegment(image))) => FirstSegmentIsRegistry

\* C7 (amended): whenever the reference contains a "/" and its first
\* segment contains "." or ":", that segment is the registry host and is no
\* part of the namespace or of the image name.
C7_HostLikeFirstOfSeveral ==
    (Parsed /\ In("/", image) /\ HostLike(FirstSegment(image)))
        => FirstSegmentIsRegistry

C7_Witness ==
    /\ Parsed
    /\ In("/", image)
    /\ In(":", FirstSegment(image))
    /\ ~In(".", FirstSegment(image))
    /\ image_data.registry = FirstSegment(image)

Scenario_Digest ==
    <<"myregistry", ".", "example", ".", "com", ":", "5000", "/", "team",
      "/", "app", "@", "sha256", ":", "abcd">>
Scenario_Tag == <<"library", "/", "nginx", ":", "stable">>

\* C8: the last segment is cut at its "@" when it has exactly one (digest
\* form), else at its ":" when it has exactly one (tag form), else it is
\* the image name and the tag is "latest"; the segments between registry
\* and image are the repository path, repository = path + "/" + image; and
\* the two documented references parse as documented.
C8_LastSegmentSplit ==
    Parsed =>
        LET last == LastSegment(image)
            d == image_data
            qualified == In("/", image) /\ HostLike(FirstSegment(image))
        IN  /\ IF Count("@", last) = 1
               THEN d.img \o <<"@">> \o d.tag = last /\ ~In("@", d.img)
               ELSE IF Count(":", last) = 1
               THEN d.img \o <<":">> \o d.tag = last /\ ~In(":", d.img)
               ELSE d.img = last /\ d.tag = <<"latest">>
            /\ d.repository = d.repo \o <<"/">> \o d.img
            /\ d.repo = IF qualified
                        THEN SubSeq(image, FirstSlash(image) + 1,
                                    LastSlash(image) - 1)
                        ELSE IF In("/", image)
                        THEN SubSeq(image, 1, LastSlash(image) - 1)
                        ELSE <<"library">>
            /\ image = Scenario_Digest =>
                 /\ d.registry = <<"myregistry", ".", "example", ".", "com",
                                   ":", "5000">>
                 /\ d.repo = <<"team">>
                 /\ d.img = <<"app">>
                 /\ d.tag = <<"sha256", ":", "abcd">>
            /\ image = Scenario_Tag =>
                 /\ d.registry = DefaultRegistry
                 /\ d.repository = <<"library", "/", "nginx">>
                 /\ d.tag = <<"stable">>

C8_Witness ==
    /\ Parsed
    /\ image = Scenario_Digest
    /\ image_data.tag = <<"sha256", ":", "abcd">>
    /\ image_data.img = <<"app">>

(* -------------------------- properties: the run ------------------------ *)

\* every request of the run so far was answered 200
AllOK == \A i \in 1..Len(reqs) : reqs[i].status = 200

\* every token request of the run so far returned a token
TokensOK ==
    \A i \in 1..Len(reqs) : reqs[i].kind = "token" => reqs[i].status = 200

\* the primary manifest request was made and answered non-200
ManifestFailed == resp.status \notin {0, 200}

\* the manifest of the run, once fetched, has at least one layer, and the
\* config blob is one the cleaning step accepts
WellFormedImage ==
    /\ resp.status = 200
    /\ Len(layers) >= 1
    /\ confresp.status = 200
    /\ ~CleanRaises(ConfigObject(confresp))

\* the layer directories of a tree: its directories other than the root
LayerDirs(tree) == {p \in DOMAIN tree : Len(p) = 1 /\ tree[p].type = "dir"}

ManifestJsonPath == <<<<"manifest.json">>>>
RepositoriesPath == <<<<"repositories">>>>

\* the values a repositories object maps its tags to
TagValues(repos) ==
    UNION {{repos[k][t] : t \in DOMAIN repos[k]} : k \in DOMAIN repos}
TagCount(repos) ==
    Cardinality({<<k, t>> \in UNION {{<<k2, t2>> : t2 \in DOMAIN repos[k2]}
                                       : k2 \in DOMAIN repos} : TRUE})

\* C1: a run over a manifest of N >= 1 layers in which no directory is in
\* the way and every request is answered 200 ends in success, with an
\* archive of exactly N layer directories, a manifest.json of N Layers
\* entries and a repositories file whose only tag maps to the ID of the
\* N-th layer (the ID being the hash of the parent ID and the digest).
C1_SuccessfulPull ==
    (Terminated /\ ~env.stale /\ WellFormedImage /\ AllOK) =>
        /\ pc = "done"
        /\ exit_code = 0
        /\ Cardinality(LayerDirs(tarball.tree)) = Len(layers)
        /\ ManifestJsonPath \in DOMAIN tarball.tree
        /\ Len(tarball.tree[ManifestJsonPath].data[1].Layers) = Len(layers)
        /\ RepositoriesPath \in DOMAIN tarball.tree
        /\ TagCount(tarball.tree[RepositoriesPath].data) = 1
        /\ TagValues(tarball.tree[RepositoriesPath].data)
               = {assigned[Len(layers)]}

\* the ID the k-th layer is documented to get: the hash of the parent's ID
\* (empty for the first layer), a newline, the layer's digest, a newline
RECURSIVE ChainedId(_, _)
ChainedId(ls, k) ==
    SHA256((IF k = 1 THEN <<>> ELSE ChainedId(ls, k - 1))
               \o <<NL>> \o ls[k].digest \o <<NL>>)

\* C2: the ID assigned to each layer the loop has started is the hash of
\* parentId + "\n" + digest + "\n", parentId being empty for the first
\* layer and the previous layer's ID for a later one.
C2_IdHashesParentAndDigest ==
    \A k \in 1..Len(assigned) : assigned[k] = ChainedId(layers, k)

\* C3: among the json records written so far, the record of the first
\* layer has no parent key and the record of a later layer has a parent
\* key equal to the id of the record written for the layer before it.
C3_ParentChain ==
    \A i \in 1..Len(written) :
        LET r == written[i]
        IN  IF r.pos = 1
            THEN "parent" \notin DOMAIN r.json
            ELSE /\ "parent" \in DOMAIN r.json
                 /\ \E j \in 1..Len(written) :
                      /\ written[j].pos = r.pos - 1
                      /\ written[j].json["id"] = r.json["parent"]

C3_Witness ==
    /\ pc = "func_layers"
    /\ Len(written) = 1
    /\ written[1].pos = 1
    /\ written[1].json["id"] = fake_layerid
    /\ "parent" \notin DOMAIN written[1].json
    /\ <<fake_layerid, <<"json">>>> \in DOMAIN fs

\* a record without its id and parent keys
Payload(json) == DelKey(DelKey(json, "id"), "parent")

\* C4: the record written for a layer at any position but the last equals
\* the placeholder object plus id and parent, also when the layer's digest
\* occurs again later in the manifest.
C4_OnlyLastCarriesConfig ==
    \A i \in 1..Len(written) :
        written[i].pos < Len(layers)
            => Payload(written[i].json) = get_base_json

\* C5: a run over a manifest of N >= 1 layers, given as a bare image name,
\* in which every request is answered 200 writes a manifest.json whose
\* Layers array has N entries, the k-th being <ID of layer k>/layer.tar.
C5_LayersRoundTrip ==
    (Terminated /\ ~env.stale /\ WellFormedImage /\ AllOK
         /\ Len(image_data.imgparts) = 1) =>
        /\ ManifestJsonPath \in DOMAIN tarball.tree
        /\ tarball.tree[ManifestJsonPath].data[1].Layers
               = [k \in 1..Len(layers) |-> assigned[k] \o <<"/layer.tar">>]

\* the digest lines printed so far
DigestLineCount ==
    Cardinality({i \in 1..Len(out) : out[i].kind = "digest"})

\* C9: a run whose manifest request is answered non-200 while the registry
\* answers the manifest-list request with 200 and K entries prints K digest
\* lines, exits non-zero and creates no working directory.
C9_ManifestListFound ==
    (Terminated /\ ManifestFailed /\ TokensOK /\ env.list = 200) =>
        /\ DigestLineCount = env.entries
        /\ exit_code # 0
        /\ ~env.stale => fs = NoFs

\* C10: a run whose manifest request and manifest-list retry are both
\* answered non-200 exits non-zero having printed the body of both
\* responses.
C10_BothBodiesPrinted ==
    (Terminated /\ ManifestFailed /\ TokensOK /\ env.list # 200) =>
        /\ exit_code # 0
        /\ \E i \in 1..Len(out) : out[i] = Line("body", "manifest")
        /\ \E i \in 1..Len(out) : out[i] = Line("body", "list")

(* ------------------------ properties: exit and cleanup ----------------- *)

\* every layer-blob request so far was answered 200, directly or by the
\* request to the fallback URL that follows it
LayerBlobsOK ==
    \A i \in 1..Len(reqs) :
        reqs[i].kind = "blob" =>
            \/ reqs[i].status = 200
            \/ /\ i < Len(reqs)
               /\ reqs[i + 1].kind = "fallback"
               /\ reqs[i + 1].status = 200

\* the manifest request, the config-blob request and every token request
\* so far were answered 200, and so was every layer blob
FetchesOK ==
    /\ \A i \in 1..Len(reqs) :
         reqs[i].kind \in {"manifest", "config", "token"}
             => reqs[i].status = 200
    /\ LayerBlobsOK

Created == \E i \in 1..Len(out) : out[i] = Line("creating", "imgdir")

\* C12: once this run has created the working directory, the directory is
\* gone only at the end of a successful run, after the archive of its
\* contents was written; a run that ended otherwise still has it.
C12_RemovedOnlyAfterArchive ==
    /\ (Created /\ ~Exists(<<>>)) =>
          /\ pc = "done"
          /\ tarball.name # <<>>
          /\ <<>> \in DOMAIN tarball.tree
    /\ (Created /\ Terminated /\ pc # "done") => Exists(<<>>)

C12_Witness ==
    /\ pc = "crashed"
    /\ Created
    /\ Exists(<<>>)
    /\ Exists(<<fake_layerid>>)
    /\ ~Exists(<<fake_layerid, <<"json">>>>)

(* ---------------------- properties: get_content_json ------------------- *)

\* the index has one key, which maps the tag to the final layer ID
SingleKey(key) ==
    /\ DOMAIN content = {key}
    /\ DOMAIN content[key] = {image_data.tag}
    /\ content[key][image_data.tag] = fake_layerid

\* C13 (as stated): the repositories index has exactly one key,
\* repositoryPath + "/" + imageName of the parsed reference, mapped to
\* {tag -> finalLayerId}.
C13_KeyIsRepository ==
    pc = "content_json" =>
        SingleKey(image_data.repo \o <<"/">> \o image_data.img)

\* C13 (amended): the repositories index has exactly one key, mapped to
\* {tag -> finalLayerId}; for a reference with a "/" the key is everything
\* up to and including the last "/" of the reference (a registry host
\* included) followed by the image name, and for a reference without "/"
\* it is the image name alone.
C13_KeyIsReferencePath ==
    pc = "content_json" =>
        SingleKey(IF In("/", image)
                  THEN SubSeq(image, 1, LastSlash(image)) \o image_data.img
                  ELSE image_data.img)

C13_Witness ==
    /\ pc = "content_json"
    /\ image = Scenario_Digest
    /\ DOMAIN content = {<<"myregistry", ".", "example", ".", "com", ":",
                           "5000", "/", "team", "/", "app">>}

(* ---------------------- properties: config cleaning -------------------- *)

\* C14: the cleaning step applied to its own output succeeds and returns
\* the same object, and no output of it holds history, or both rootfs and
\* rootfS.
C14_CleanIsIdempotent ==
    /\ \A i \in 1..Len(written) :
         /\ "history" \notin DOMAIN written[i].json
         /\ ~("rootfs" \in DOMAIN written[i].json
              /\ "rootfS" \in DOMAIN written[i].json)
    /\ idx >= 1 => pc # "crashed"
    /\ idx = 2 => written[2].json = written[1].json

(* ---------------------- properties: requests of a run ------------------ *)

\* the number of the token the i-th request, a token request, returned
Issued(i) ==
    Cardinality({k \in 1..i : reqs[k].kind = "token" /\ reqs[k].status = 200})

ManifestRequests == {i \in 1..Len(reqs) : reqs[i].kind = "manifest"}

\* C15: a run whose manifest request was answered non-200 (its token
\* requests succeeding) has made, when it ends, exactly two manifest
\* requests: the second to the same URL, with the manifest-list accept type
\* and the token of a token request made between the two.
C15_OneRetryWithListType ==
    (Terminated /\ ManifestFailed /\ TokensOK) =>
        /\ Cardinality(ManifestRequests) = 2
        /\ \E i, j \in ManifestRequests :
             /\ i < j
             /\ reqs[j].url = reqs[i].url
             /\ reqs[j].accept = MediaList
             /\ \E k \in (i + 1)..(j - 1) :
                  /\ reqs[k].kind = "token"
                  /\ reqs[k].status = 200
                  /\ reqs[j].token = Issued(k)

Printed(line) == \E i \in 1..Len(out) : out[i] = line

\* C16: a request to a fallback URL follows a non-200 blob request of the
\* same layer; when it is answered non-200 too, it is the last request of
\* the run, the diagnostic (status and body) is printed, the run has ended
\* with a non-zero exit, and the layer has no layer.tar and no json.
C16_FallbackThenFatal ==
    \A i \in 1..Len(reqs) :
        reqs[i].kind = "fallback" =>
            /\ i > 1
            /\ reqs[i - 1].kind = "blob"
            /\ reqs[i - 1].status # 200
            /\ reqs[i].status # 200 =>
                 /\ i = Len(reqs)
                 /\ Terminated
                 /\ exit_code # 0
                 /\ Printed(Line("failure", "layer"))
                 /\ Printed(Line("body", "layer"))
                 /\ ~Exists(<<fake_layerid, <<"layer.tar">>>>)
                 /\ ~Exists(<<fake_layerid, <<"json">>>>)

\* C18: the probe never ends the run: after it the run goes on to the
\* token request, with the default endpoint and service unless the answer
\* is 401, and then with the endpoint of the challenge and its service or
\* the empty string.
C18_ProbeNeverFails ==
    Len(reqs) = 1 =>
        /\ pc = "get_auth_head"
        /\ reqs[1].status # 401 =>
             /\ url_data.auth_url = <<"https://auth.docker.io/token">>
             /\ url_data.reg_service = <<"registry.docker.io">>
        /\ reqs[1].status = 401 =>
             /\ url_data.auth_url = <<"https://auth.example/token">>
             /\ url_data.reg_service \in {<<"registry.example">>, <<>>}

\* C19: the IDs assigned to the layers of a run are pairwise distinct, and
\* no layer directory is refused because an earlier layer of the run
\* created it.
C19_DistinctLayerIds ==
    /\ \A i, j \in 1..Len(assigned) : i # j => assigned[i] # assigned[j]
    /\ ~(error = "FileExistsError" /\ Len(assigned) >= 2)

BlobRequests == {i \in 1..Len(reqs) : reqs[i].kind = "blob"}
LayerGets == {i \in 1..Len(reqs) : reqs[i].kind \in {"blob", "fallback"}}

\* the token requests made after the config request, that is, by the loop
LayerTokenRequests ==
    {i \in 1..Len(reqs) :
        /\ reqs[i].kind = "token"
        /\ \E c \in 1..(i - 1) : reqs[c].kind = "config"}

\* C17: every blob GET of a layer, direct or fallback, carries the token
\* returned by the token request that immediately precedes the layer's
\* direct GET, which is no token of the manifest phase; the n-th layer is
\* requested only after n - 1 json records were written; and a successful
\* run over N layers has made N token requests in the loop.
C17_FreshTokenPerLayer ==
    /\ \A i \in LayerGets :
         LET k == IF reqs[i].kind = "blob" THEN i - 1 ELSE i - 2
         IN  /\ k >= 1
             /\ reqs[k].kind = "token"
             /\ reqs[k].status = 200
             /\ reqs[i].token = Issued(k)
             /\ reqs[i].kind = "fallback" => reqs[i - 1].kind = "blob"
             /\ \A m \in 1..Len(reqs) :
                  reqs[m].kind \in {"manifest", "config"}
                      => reqs[m].token # reqs[i].token
    /\ Cardinality(BlobRequests) <= Len(written) + 1
    /\ pc = "done" => Cardinality(LayerTokenRequests) = Len(layers)

C17_Witness ==
    /\ pc = "done"
    /\ \E i \in LayerGets :
         /\ reqs[i].kind = "fallback"
         /\ reqs[i].status = 200
         /\ reqs[i].token = 2
         /\ reqs[i - 1].token = 2
    /\ auth_head.Authorization = 1

\* the states of layer processing
InLayers == pc \in {"func_layers", "layer_fetch", "layer_save"}

\* C20 (as stated): the accept type of the auth context is the
\* manifest-list type only in a run that has ended; during layer
\* processing it is the manifest-v2 type, and every token request and blob
\* request made for a layer carries Accept: manifest v2.
C20_LayerRequestsAcceptV2 ==
    /\ url_data.auth_type = MediaList => Terminated
    /\ InLayers => url_data.auth_type = MediaV2
    /\ \A i \in LayerGets \cup LayerTokenRequests : reqs[i].accept = MediaV2

\* C20 (amended): the accept type of the auth context is the manifest-list
\* type only in a run that has ended; during layer processing it is the
\* manifest-v2 type, and every blob request made for a layer carries
\* Accept: manifest v2 (a token request is sent without headers).
C20_LayerBlobsAcceptV2 ==
    /\ url_data.auth_type = MediaList => Terminated
    /\ InLayers => url_data.auth_type = MediaV2
    /\ \A i \in LayerGets : reqs[i].accept = MediaV2
    /\ \A i \in LayerTokenRequests : reqs[i].accept = <<>>

C20_Witness ==
    /\ pc = "layer_save"
    /\ url_data.auth_type = MediaV2
    /\ reqs[Len(reqs)].kind = "fallback"
    /\ reqs[Len(reqs)].accept = MediaV2
    /\ reqs[Len(reqs) - 2].kind = "token"

====
